---- MODULE Spec2Model ----
(***************************************************************************)
(* The client-side cache layer of the finance tracker: the limits store    *)
(* (loadLimits, addLimit, updateLimit, removeLimit, refreshLimits), the    *)
(* auto-refresh timer that drives it, the transactions page with the       *)
(* transactions store it works on, and the remote endpoint they talk       *)
(* to.  JavaScript runs each handler to its next await without             *)
(* interruption, so an action is one such run: a call up to its first      *)
(* await, or the continuation of a call after a request has resolved.      *)
(***************************************************************************)
EXTENDS Integers, Sequences, FiniteSets, Bags, TLC

\* ------------------------------------------------------------------ bounds
MaxId    == 3    \* limit identifiers the server can ever hand out
MaxCalls == 3    \* store calls the user makes in one run
MaxTasks == 2    \* store calls that can be suspended at an await at once
MaxShortCalls == 2  \* store calls of a short run
MaxLiveCalls == 1  \* store calls the user makes in a run whose timer never runs out
MaxTimers == 2     \* interval handles the browser hands out
MaxAmount == 12    \* the largest amount entered in the form

Ids == 1..MaxId

\* ----------------------------------------------------------------- filters
\* GetLimitsParams | undefined.  An object is the ordered list of its
\* <<key, value>> entries (insertion order is what JSON.stringify walks);
\* the value "undefined" stands for a key that is present but undefined.
FUndef == [isObj |-> FALSE, kv |-> <<>>]
FCat1  == [isObj |-> TRUE,  kv |-> << <<"category_id", "c1">> >>]
FCat1U == [isObj |-> TRUE,  kv |-> << <<"category_id", "c1">>, <<"period", "undefined">> >>]
FCat1M == [isObj |-> TRUE,  kv |-> << <<"category_id", "c1">>, <<"period", "m">> >>]
FMCat1 == [isObj |-> TRUE,  kv |-> << <<"period", "m">>, <<"category_id", "c1">> >>]

Filters == {FUndef, FCat1, FCat1U, FCat1M, FMCat1}

Defined(p) == p[2] # "undefined"

\* JSON.stringify: undefined for undefined; for an object the entries in
\* insertion order, an entry whose value is undefined being left out.
JSONStringify(f) == [isObj |-> f.isObj, kv |-> SelectSeq(f.kv, Defined)]

\* The fields a filter sets, whatever the order they were written in.
Fields(f) == {f.kv[i] : i \in {j \in 1..Len(f.kv) : Defined(f.kv[j])}}

\* Structural equality of two filters: field-by-field, absent and undefined
\* fields alike, independent of key order.
StructEq(f, g) == Fields(f) = Fields(g)

\* ------------------------------------------------------------------ server
\* The category of a limit is fixed when the server creates it.
CategoryOf(id) == IF id % 2 = 1 THEN "c1" ELSE "c2"

Matches(id, f) ==
    \A p \in Fields(f) : p[1] = "category_id" => CategoryOf(id) = p[2]

\* What the endpoint answers to fetchLimits(params): the limits that match
\* the query, stamped with the query and the version of the data it read.
NoResult == [q |-> {<<"none", "none">>}, items |-> {}, ver |-> 0]

LIST(srv, f) ==
    [q |-> Fields(f), items |-> {id \in srv.present : Matches(id, f)}, ver |-> srv.ver]

\* ------------------------------------------------------------------- state
VARIABLES
    server,          \* the remote collection: present ids, deleted ids, version
    limits,          \* limits.value: the last fetch result stored
    loading,         \* loading.value
    isLoaded,        \* isLoaded.value
    currentFilter,   \* currentFilter.value
    refreshInterval, \* the timer handle of useAutoRefresh (0 is null)
    timers,          \* the handles of the intervals set and not yet cleared
    tasks,           \* the store calls suspended at an await
    calls,           \* store calls the user has made so far
    outcome          \* how the call that finished last ended

limitsVars == <<server, limits, loading, isLoaded, currentFilter, refreshInterval,
                timers, tasks, calls, outcome>>

\* The edit session of the limits store.
VARIABLES
    editingLimit,    \* editingLimit.value (0 is null)
    drawerVisible    \* drawerVisible.value

formVars == <<editingLimit, drawerVisible>>

\* The transactions page and the transactions store it works on.
VARIABLES
    txServer,             \* the remote transactions: present ids, deleted ids, version
    transactions,         \* transactionsStore: the last fetch result stored
    txLoading,            \* transactionsStore.loading
    txLoaded,             \* transactionsStore: a load has succeeded
    currentFilters,       \* transactionsStore.currentFilters
    editingTransaction,   \* transactionsStore.editingTransaction (0 is null)
    detailsDrawerVisible, \* detailsDrawerVisible.value
    selectedTransaction,  \* selectedTransaction.value (0 is null)
    formDrawerVisible,    \* formDrawerVisible.value
    selectionMode,        \* selectionMode.value
    selectedIds,          \* selectedIds.value, an array
    hideBottomBar,        \* layoutStore.hideBottomBar
    toast,                \* the toast shown last
    pageTasks,            \* the page handlers and loads suspended at an await
    pageCalls,            \* handlers and loads started so far that go to the network
    mounted               \* the page component is mounted

storeVars   == <<txServer, transactions, txLoading, txLoaded, currentFilters>>
sessionVars == <<editingTransaction, detailsDrawerVisible, selectedTransaction,
                 formDrawerVisible>>
selectVars  == <<selectionMode, selectedIds, hideBottomBar>>
pageVars    == <<storeVars, sessionVars, selectVars, toast, pageTasks, pageCalls,
                 mounted>>

\* One run of refreshAllStores.
VARIABLES
    branch,          \* per store, the promise of its refresh call
    tickPromise,     \* the promise refreshAllStores returns
    chartIsLoaded    \* categoriesChartStore.isLoaded

tickVars == <<branch, tickPromise, chartIsLoaded>>

\* The component that uses useAutoRefresh, and the payloads built last.
VARIABLES
    lifecycle,       \* "setup", "mounted" or "unmounted"
    periodData,      \* the limit payload built last, with the clock it was built at
    updateData       \* the transaction update payload built last, with its form data

otherVars == <<lifecycle, periodData, updateData>>

vars == <<limitsVars, formVars, pageVars, tickVars, otherVars>>

NoDate       == [y |-> 0, m |-> 0, d |-> 0]
NoPeriodData == [op |-> "none", year |-> 0, month |-> 0, offset |-> 0,
                 period_start |-> NoDate, period_end |-> NoDate]
Undefined    == [defined |-> FALSE, chars |-> <<>>]
NoUpdateData == [built |-> FALSE, category |-> Undefined, amount |-> 0,
                 keys |-> {}, category_id |-> Undefined, amountSent |-> <<>>]

\* What the limits store leaves alone, and what the page leaves alone.
offLimits == <<formVars, pageVars, tickVars, otherVars>>
offPage   == <<limitsVars, formVars, tickVars, otherVars, mounted>>

\* A store call suspended at an await: which call, who made it, the await it
\* is at (pc), where its request is (net), and what it carries.  Calls are
\* told apart by what they are, so the suspended calls form a bag.
NewTask ==
    [op |-> "none", origin |-> "none", pc |-> "idle", net |-> "none",
     params |-> FUndef, id |-> 0, cat |-> "none", resp |-> NoResult, mver |-> 0]

Pending     == BagToSet(tasks)
Suspend(t)  == tasks (+) SetToBag({t})
Resume(t)   == tasks (-) SetToBag({t})
Step(t, u)  == (tasks (-) SetToBag({t})) (+) SetToBag({u})
Count(S)    == BagCardinality([t \in S |-> tasks[t]])
InFlight    == BagCardinality(tasks)
LoadFetches == Count({t \in Pending : t.op = "load" /\ t.pc = "fetch"})

NoOutcome == [op |-> "none", origin |-> "none", res |-> "none"]
Outcome(op, origin, res) == [op |-> op, origin |-> origin, res |-> res]

PageInit ==
    /\ txServer = [present |-> {1, 2}, gone |-> {}, ver |-> 0]
    /\ transactions = NoResult
    /\ txLoading = FALSE
    /\ txLoaded = FALSE
    /\ currentFilters = FUndef
    /\ editingTransaction = 0
    /\ detailsDrawerVisible = FALSE
    /\ selectedTransaction = 0
    /\ formDrawerVisible = FALSE
    /\ selectionMode = FALSE
    /\ selectedIds = <<>>
    /\ hideBottomBar = FALSE
    /\ toast = "none"
    /\ pageTasks = EmptyBag
    /\ pageCalls = 0
    /\ mounted = TRUE

\* The stores refreshAllStores works on.
Stores == {"transactions", "categories", "limits", "balance", "debtsBalance",
           "categoriesChart"}

TickInit ==
    /\ branch = [s \in Stores |-> "none"]
    /\ tickPromise = "none"
    /\ chartIsLoaded = FALSE

Init ==
    /\ PageInit
    /\ TickInit
    /\ lifecycle = "setup"
    /\ periodData = NoPeriodData
    /\ updateData = NoUpdateData
    /\ editingLimit = 0
    /\ drawerVisible = FALSE
    /\ server = [present |-> {1, 2}, gone |-> {}, ver |-> 0]
    /\ limits = NoResult
    /\ loading = FALSE
    /\ isLoaded = FALSE
    /\ currentFilter = FUndef
    /\ refreshInterval = 0
    /\ timers = {}
    /\ tasks = EmptyBag
    /\ calls = 0
    /\ outcome = NoOutcome

\* ----------------------------------------------------------- the endpoint
Categories == {"c1", "c2"}
Unused     == Ids \ (server.present \cup server.gone)
FreshFor(c) == {id \in Unused : CategoryOf(id) = c}
NewId(c)   == CHOOSE id \in FreshFor(c) : \A j \in FreshFor(c) : id <= j

\* CREATE: a new limit under an identifier never used before.
CREATE(srv, id) ==
    [present |-> srv.present \cup {id}, gone |-> srv.gone, ver |-> srv.ver + 1]
\* UPDATE: the limit keeps its identifier, the data changes.
UPDATE(srv, id) ==
    [present |-> srv.present, gone |-> srv.gone, ver |-> srv.ver + 1]
\* DELETE: the identifier is gone for good.
DELETE(srv, id) ==
    [present |-> srv.present \ {id}, gone |-> srv.gone \cup {id}, ver |-> srv.ver + 1]

\* The endpoint serves the request of task t: a fetch reads the collection,
\* a mutation changes it.  The answer is on its way back afterwards.
ServerHandle(t) ==
    /\ t.net = "sent"
    /\ \/ /\ t.pc = "fetch"
          /\ tasks' = Step(t, [t EXCEPT !.net = "done",
                                         !.resp = LIST(server, t.params)])
          /\ UNCHANGED server
       \/ /\ t.pc = "req" /\ t.op = "add"
          /\ FreshFor(t.cat) # {}
          /\ server' = CREATE(server, NewId(t.cat))
          /\ tasks' = Step(t, [t EXCEPT !.net = "done", !.id = NewId(t.cat),
                                         !.mver = server.ver + 1])
       \/ /\ t.pc = "req" /\ t.op = "update"
          /\ t.id \in server.present
          /\ server' = UPDATE(server, t.id)
          /\ tasks' = Step(t, [t EXCEPT !.net = "done", !.mver = server.ver + 1])
       \/ /\ t.pc = "req" /\ t.op = "remove"
          /\ t.id \in server.present
          /\ server' = DELETE(server, t.id)
          /\ tasks' = Step(t, [t EXCEPT !.net = "done", !.mver = server.ver + 1])
    /\ UNCHANGED <<limits, loading, isLoaded, currentFilter, refreshInterval, timers,
                   calls, outcome>>

\* --------------------------------------------------------------- loadLimits
filterChanged(params) == JSONStringify(currentFilter) # JSONStringify(params)

\* The cache-hit test with the filter comparison inverted.
CacheHit_Inverted(params, force) == ~force /\ isLoaded /\ filterChanged(params)

CacheHit(params, force) == ~force /\ isLoaded /\ ~filterChanged(params)

LoadGuard == loading

\* The suspended loadLimits call: awaiting fetchLimits(params).
LoadTask(f, origin) ==
    [NewTask EXCEPT !.op = "load", !.origin = origin, !.pc = "fetch",
                    !.net = "sent", !.params = f]

\* loadLimits going to the network without recording the filter it was given.
LoadStart_KeepsFilter(params, origin) ==
    /\ InFlight < MaxTasks
    /\ loading' = TRUE
    /\ tasks' = Suspend(LoadTask(params, origin))
    /\ UNCHANGED <<server, limits, isLoaded, currentFilter, refreshInterval, timers, outcome>>

\* What loadLimits does before its await: the filter is recorded and the
\* busy flag raised, then the fetch goes out.
LoadStart(params, origin) ==
    /\ InFlight < MaxTasks
    /\ loading' = TRUE
    /\ currentFilter' = params
    /\ tasks' = Suspend(LoadTask(params, origin))
    /\ UNCHANGED <<server, limits, isLoaded, refreshInterval, timers, outcome>>

Return(origin) ==
    /\ outcome' = Outcome("load", origin, "noop")
    /\ UNCHANGED <<server, limits, loading, isLoaded, currentFilter,
                   refreshInterval, timers, tasks>>

\* A loadLimits whose cache-hit test does not look at force.
loadLimits_IgnoresForce(params, force, origin) ==
    /\ IF CacheHit(params, FALSE) THEN Return(origin)
       ELSE IF LoadGuard THEN Return(origin)
       ELSE LoadStart(params, origin)

loadLimits(params, force, origin) ==
    /\ IF CacheHit(params, force) THEN Return(origin)
       ELSE IF LoadGuard THEN Return(origin)
       ELSE LoadStart(params, origin)

\* limits.value = await fetchLimits(params); isLoaded.value = true; finally.
LoadResolved(t) ==
    /\ t.op = "load" /\ t.pc = "fetch" /\ t.net = "done"
    /\ limits' = t.resp
    /\ isLoaded' = TRUE
    /\ loading' = FALSE
    /\ tasks' = Resume(t)
    /\ outcome' = Outcome(t.op, t.origin, "ok")
    /\ UNCHANGED <<server, currentFilter, refreshInterval, timers, calls>>

\* A failed load that resets the cache instead of keeping what it holds.
LoadRejected_Clears(t) ==
    /\ t.op = "load" /\ t.pc = "fetch" /\ t.net = "sent"
    /\ limits' = NoResult
    /\ isLoaded' = FALSE
    /\ loading' = FALSE
    /\ tasks' = Resume(t)
    /\ outcome' = Outcome(t.op, t.origin, "logged")
    /\ UNCHANGED <<server, currentFilter, refreshInterval, timers, calls>>

\* catch (error) { console.error(...) } finally { loading.value = false }
LoadRejected(t) ==
    /\ t.op = "load" /\ t.pc = "fetch" /\ t.net = "sent"
    /\ loading' = FALSE
    /\ tasks' = Resume(t)
    /\ outcome' = Outcome(t.op, t.origin, "logged")
    /\ UNCHANGED <<server, limits, isLoaded, currentFilter, refreshInterval, timers,
                   calls>>

\* A refresh that does not force the reload.
refreshLimits_NotForced(origin) == loadLimits(currentFilter, FALSE, origin)

refreshLimits(origin) == loadLimits(currentFilter, TRUE, origin)

\* ---------------------------------------------------------------- mutations
Mutations == {"add", "update", "remove"}

\* addLimit / updateLimit / removeLimit up to the await of the request.
MutationStart(op, id, cat, origin) ==
    /\ InFlight < MaxTasks
    /\ loading' = TRUE
    /\ tasks' = Suspend([NewTask EXCEPT !.op = op, !.origin = origin, !.pc = "req",
                                        !.net = "sent", !.id = id, !.cat = cat])
    /\ UNCHANGED <<server, limits, isLoaded, currentFilter, refreshInterval, timers,
                   outcome>>

addLimit(cat, origin)   == MutationStart("add", 0, cat, origin)
updateLimit(id, origin) == MutationStart("update", id, "none", origin)
removeLimit(id, origin) == MutationStart("remove", id, "none", origin)

\* The request resolved: limits.value = await fetchLimits(currentFilter.value).
MutationResolved(t) ==
    /\ t.op \in Mutations /\ t.pc = "req" /\ t.net = "done"
    /\ tasks' = Step(t, [t EXCEPT !.pc = "fetch", !.net = "sent",
                                   !.params = currentFilter])
    /\ UNCHANGED <<server, limits, loading, isLoaded, currentFilter,
                   refreshInterval, timers, calls, outcome>>

\* The reload after the mutation resolved; finally { loading.value = false }.
ReloadResolved(t) ==
    /\ t.op \in Mutations /\ t.pc = "fetch" /\ t.net = "done"
    /\ limits' = t.resp
    /\ loading' = FALSE
    /\ tasks' = Resume(t)
    /\ outcome' = Outcome(t.op, t.origin, "ok")
    /\ UNCHANGED <<server, isLoaded, currentFilter, refreshInterval, timers, calls>>

\* A failed mutation that rethrows without the finally block.
MutationRejected_NoFinally(t) ==
    /\ t.op \in Mutations /\ t.net = "sent"
    /\ tasks' = Resume(t)
    /\ outcome' = Outcome(t.op, t.origin, "thrown")
    /\ UNCHANGED <<server, limits, loading, isLoaded, currentFilter, refreshInterval, timers,
                   calls>>

\* catch (error) { console.error(...); throw error } finally { ... }
MutationRejected(t) ==
    /\ t.op \in Mutations /\ t.net = "sent"
    /\ loading' = FALSE
    /\ tasks' = Resume(t)
    /\ outcome' = Outcome(t.op, t.origin, "thrown")
    /\ UNCHANGED <<server, limits, isLoaded, currentFilter, refreshInterval, timers,
                   calls>>

\* ------------------------------------------------------------ auto refresh
\* Interval handles; setInterval returns one that is not in use.
Handles == 1..MaxTimers
clearInterval(h) == timers \ {h}
NewHandle(active) == CHOOSE h \in Handles \ active : \A g \in Handles \ active : h <= g

\* A startAutoRefresh that sets the new interval without clearing the old one.
startAutoRefresh_NoClear ==
    /\ Handles \ timers # {}
    /\ refreshInterval' = NewHandle(timers)
    /\ timers' = timers \cup {NewHandle(timers)}
    /\ UNCHANGED <<server, limits, loading, isLoaded, currentFilter, tasks, outcome>>

startAutoRefresh ==
    LET cleared == IF refreshInterval # 0 THEN clearInterval(refreshInterval)
                                          ELSE timers
    IN  /\ Handles \ cleared # {}
        /\ refreshInterval' = NewHandle(cleared)
        /\ timers' = cleared \cup {NewHandle(cleared)}
        /\ UNCHANGED <<server, limits, loading, isLoaded, currentFilter, tasks, outcome>>

stopAutoRefresh ==
    /\ timers' = (IF refreshInterval # 0 THEN clearInterval(refreshInterval)
                                         ELSE timers)
    /\ refreshInterval' = 0
    /\ UNCHANGED <<server, limits, loading, isLoaded, currentFilter, tasks, outcome>>

\* Of the stores refreshed, the limits: limitsStore.refreshLimits().catch(() => { }).
refreshAllStores == refreshLimits("tick")

\* The interval set by startAutoRefresh fires while it has not been cleared.
IntervalFires ==
    /\ timers # {}
    /\ refreshAllStores

\* ------------------------------------------------------- limits edit session
\* An editLimit that keeps the session of a limit already being edited.
editLimit_KeepsFirst(id) ==
    /\ editingLimit' = (IF editingLimit = 0 THEN id ELSE editingLimit)
    /\ drawerVisible' = TRUE

editLimit(id) ==
    /\ editingLimit' = id
    /\ drawerVisible' = TRUE

closeForm ==
    /\ drawerVisible' = FALSE
    /\ editingLimit' = 0

\* handleSubmit up to its await: updateLimit for the limit being edited,
\* addLimit when none is.
handleSubmit(cat) ==
    IF editingLimit # 0
    THEN updateLimit(editingLimit, "submitEdit")
    ELSE addLimit(cat, "submitNew")

\* handleSubmit after the store call it awaited has returned.
AfterSubmit(t) ==
    IF t.origin = "submitEdit"
    THEN editingLimit' = 0 /\ drawerVisible' = FALSE
    ELSE IF t.origin = "submitNew"
    THEN drawerVisible' = FALSE /\ UNCHANGED editingLimit
    ELSE UNCHANGED formVars

\* --------------------------------------------------------------- the system
\* A run makes at most max store calls; each one is counted.
Call(max)       == calls < max /\ calls' = calls + 1 /\ UNCHANGED offLimits
\* Overlapping calls tell filters apart by the query they make only: two
\* filters with different queries stand for all of them.
LoadFilters == {FUndef, FCat1}
UserLoad(max)   == Call(max) /\ \E f \in LoadFilters, force \in BOOLEAN : loadLimits(f, force, "user")
UserAdd(max)    == Call(max) /\ \E c \in Categories : addLimit(c, "user")
UserUpdate(max) == Call(max) /\ \E id \in limits.items : updateLimit(id, "user")
UserRemove(max) == Call(max) /\ \E id \in limits.items : removeLimit(id, "user")
Tick(max)       == Call(max) /\ IntervalFires
StartTimer      == startAutoRefresh /\ UNCHANGED <<calls, offLimits>>
StopTimer       == stopAutoRefresh /\ UNCHANGED <<calls, offLimits>>
Handle     == (\E t \in Pending : ServerHandle(t)) /\ UNCHANGED offLimits
LoadOk     == (\E t \in Pending : LoadResolved(t)) /\ UNCHANGED offLimits
LoadFail   == (\E t \in Pending : LoadRejected(t)) /\ UNCHANGED offLimits
MutOk      == (\E t \in Pending : MutationResolved(t)) /\ UNCHANGED offLimits
ReloadOk   == (\E t \in Pending : ReloadResolved(t) /\ AfterSubmit(t))
                 /\ UNCHANGED <<pageVars, tickVars, otherVars>>
MutFail    == (\E t \in Pending : MutationRejected(t)) /\ UNCHANGED offLimits
Resolve    == Handle \/ LoadOk \/ LoadFail \/ MutOk \/ ReloadOk \/ MutFail

Next ==
    \/ UserLoad(MaxCalls)
    \/ UserAdd(MaxCalls)
    \/ UserUpdate(MaxCalls)
    \/ UserRemove(MaxCalls)
    \/ Tick(MaxCalls)
    \/ StartTimer
    \/ StopTimer
    \/ Handle
    \/ LoadOk
    \/ LoadFail
    \/ MutOk
    \/ ReloadOk
    \/ MutFail

Spec == Init /\ [][Next]_vars

\* Sequential use: a store call is made only when no earlier call is still
\* suspended, as in "load, and after it has resolved, load again".
Idle          == InFlight = 0
SeqLoad       == Idle /\ Call(MaxCalls)
                      /\ \E f \in Filters, force \in BOOLEAN : loadLimits(f, force, "user")
SeqAdd        == Idle /\ UserAdd(MaxCalls)
SeqUpdate     == Idle /\ UserUpdate(MaxCalls)
SeqRemove     == Idle /\ UserRemove(MaxCalls)
SeqTick       == Idle /\ Tick(MaxCalls)

SeqNext ==
    \/ SeqLoad
    \/ SeqAdd
    \/ SeqUpdate
    \/ SeqRemove
    \/ SeqTick
    \/ StartTimer
    \/ StopTimer
    \/ Handle
    \/ LoadOk
    \/ LoadFail
    \/ MutOk
    \/ ReloadOk
    \/ MutFail

SeqSpec == Init /\ [][SeqNext]_vars

\* Short runs: the same calls, overlapping freely, fewer of them.
ShortNext ==
    \/ UserLoad(MaxShortCalls)
    \/ UserAdd(MaxShortCalls)
    \/ UserUpdate(MaxShortCalls)
    \/ UserRemove(MaxShortCalls)
    \/ Tick(MaxShortCalls)
    \/ StartTimer
    \/ StopTimer
    \/ Handle
    \/ LoadOk
    \/ LoadFail
    \/ MutOk
    \/ ReloadOk
    \/ MutFail

ShortSpec == Init /\ [][ShortNext]_vars

\* Every outstanding remote call eventually resolves, one way or the other.
FairSpec == ShortSpec /\ WF_vars(Resolve)

\* The interval never runs out of ticks: the user makes a bounded number of
\* calls, the timer ticks for as long as it is started.  A tick that is due
\* eventually fires, every outstanding call eventually resolves, and of the
\* fetches that keep being issued some are served and delivered.
TimerTick == IntervalFires /\ UNCHANGED <<calls, offLimits>>

LiveNext ==
    \/ UserLoad(MaxLiveCalls)
    \/ UserAdd(MaxLiveCalls)
    \/ UserUpdate(MaxLiveCalls)
    \/ UserRemove(MaxLiveCalls)
    \/ TimerTick
    \/ StartTimer
    \/ StopTimer
    \/ Handle
    \/ LoadOk
    \/ LoadFail
    \/ MutOk
    \/ ReloadOk
    \/ MutFail

LiveSpec ==
    /\ Init /\ [][LiveNext]_vars
    /\ WF_vars(TimerTick)
    /\ WF_vars(Resolve)
    /\ SF_vars(Handle)
    /\ WF_vars(LoadOk)

\* ------------------------------------------------------ transactions store
\* A page handler or a store load suspended at an await: the handler, the
\* await it is at, where its request is, the ids it works on, the filter of
\* its fetch, the answer, and the server version its mutation produced.
NewPageTask ==
    [op |-> "none", pc |-> "idle", net |-> "none", ids |-> {},
     params |-> FUndef, resp |-> NoResult, mver |-> 0]

PagePending    == BagToSet(pageTasks)
PageSuspend(t) == pageTasks (+) SetToBag({t})
PageResume(t)  == pageTasks (-) SetToBag({t})
PageStep(t, u) == (pageTasks (-) SetToBag({t})) (+) SetToBag({u})
PageInFlight   == BagCardinality(pageTasks)

\* DELETE_MANY: every listed transaction that exists is deleted.
DELETE_MANY(srv, ids) ==
    [present |-> srv.present \ ids, gone |-> srv.gone \cup (ids \cap srv.present),
     ver |-> srv.ver + 1]

\* The endpoint serves the request of page task t.
TxServerHandle(t) ==
    /\ t.net = "sent"
    /\ \/ /\ t.pc = "fetch"
          /\ pageTasks' = PageStep(t, [t EXCEPT !.net = "done",
                                                !.resp = LIST(txServer, t.params)])
          /\ UNCHANGED txServer
       \/ /\ t.pc = "req" /\ t.op = "update"
          /\ t.ids \subseteq txServer.present
          /\ txServer' = UPDATE(txServer, CHOOSE id \in t.ids : TRUE)
          /\ pageTasks' = PageStep(t, [t EXCEPT !.net = "done",
                                                !.mver = txServer.ver + 1])
       \/ /\ t.pc = "req" /\ t.op = "remove"
          /\ t.ids \subseteq txServer.present
          /\ txServer' = DELETE(txServer, CHOOSE id \in t.ids : TRUE)
          /\ pageTasks' = PageStep(t, [t EXCEPT !.net = "done",
                                                !.mver = txServer.ver + 1])
       \/ /\ t.pc = "req" /\ t.op = "massDelete"
          /\ t.ids \cap txServer.present # {}
          /\ txServer' = DELETE_MANY(txServer, t.ids)
          /\ pageTasks' = PageStep(t, [t EXCEPT !.net = "done",
                                                !.mver = txServer.ver + 1])
    /\ UNCHANGED <<transactions, txLoading, txLoaded, currentFilters, sessionVars,
                   selectVars, toast, pageCalls>>

\* loadTransactions(params, append, force) returns at once when a load is in
\* progress, or when it is not forced and the cache is loaded for a filter
\* structurally equal to params.
TxLoadSkips(params, force) ==
    txLoading \/ (~force /\ txLoaded /\ StructEq(currentFilters, params))

\* loadTransactions up to its await: busy flag raised, fetch sent.
TxLoadStart(params, force, op) ==
    IF TxLoadSkips(params, force)
    THEN UNCHANGED <<storeVars, pageTasks>>
    ELSE /\ PageInFlight < MaxTasks
         /\ txLoading' = TRUE
         /\ pageTasks' = PageSuspend([NewPageTask EXCEPT !.op = op, !.pc = "fetch",
                                                   !.net = "sent", !.params = params])
         /\ UNCHANGED <<txServer, transactions, txLoaded, currentFilters>>

\* The fetch answered: contents replaced, filter recorded, loaded, not busy.
TxStore(t) ==
    /\ transactions' = t.resp
    /\ currentFilters' = t.params
    /\ txLoaded' = TRUE
    /\ txLoading' = FALSE

TxLoadResolved(t) ==
    /\ t.op \in {"load", "tick"} /\ t.pc = "fetch" /\ t.net = "done"
    /\ TxStore(t)
    /\ pageTasks' = PageResume(t)
    /\ UNCHANGED <<txServer, sessionVars, selectVars, toast, pageCalls>>

\* The fetch failed: contents kept, busy flag cleared, the error thrown to
\* the caller (the tick swallows it, the page's filter handlers do not
\* catch it).
TxLoadRejected(t) ==
    /\ t.op \in {"load", "tick"} /\ t.pc = "fetch" /\ t.net = "sent"
    /\ txLoading' = FALSE
    /\ pageTasks' = PageResume(t)
    /\ UNCHANGED <<txServer, transactions, txLoaded, currentFilters, sessionVars,
                   selectVars, toast, pageCalls>>

\* applyFilters(filters) / resetFilters(): a load for the filter given.
applyFilters(filters) == TxLoadStart(filters, FALSE, "load")
resetFilters          == applyFilters(FUndef)

\* The tick's transactionsStore.loadTransactions(currentFilters.value, false,
\* true).catch(() => { }).
refreshTransactionsTick == TxLoadStart(currentFilters, TRUE, "tick")

\* editTransaction(tx): the edit session is on tx.
editTransaction(id) == editingTransaction' = id

\* ------------------------------------------------------- transactions page
Range(s) == {s[i] : i \in 1..Len(s)}

handleApplyFilters(filters) ==
    /\ applyFilters(filters)
    /\ UNCHANGED <<sessionVars, selectVars, toast>>

handleResetFilters ==
    /\ resetFilters
    /\ UNCHANGED <<sessionVars, selectVars, toast>>

\* selected: the id is appended to the array; deselected: every occurrence
\* of it is filtered out.
handleSelect(id, selected) ==
    /\ selectedIds' = IF selected THEN Append(selectedIds, id)
                      ELSE SelectSeq(selectedIds, LAMBDA x : x # id)
    /\ UNCHANGED <<storeVars, sessionVars, selectionMode, hideBottomBar, toast,
                   pageTasks>>

\* An exitSelectionMode that leaves the selected ids in place.
exitSelectionMode_KeepsIds ==
    /\ selectionMode' = FALSE
    /\ selectedIds' = selectedIds
    /\ hideBottomBar' = FALSE

exitSelectionMode ==
    /\ selectionMode' = FALSE
    /\ selectedIds' = <<>>
    /\ hideBottomBar' = FALSE

toggleSelectionMode ==
    /\ IF selectionMode THEN exitSelectionMode
       ELSE /\ selectionMode' = TRUE
            /\ hideBottomBar' = TRUE
            /\ UNCHANGED selectedIds
    /\ UNCHANGED <<storeVars, sessionVars, toast, pageTasks>>

handleTransactionClick(id) ==
    /\ selectedTransaction' = id
    /\ detailsDrawerVisible' = TRUE
    /\ UNCHANGED <<storeVars, editingTransaction, formDrawerVisible, selectVars,
                   toast, pageTasks>>

handleEditTransaction ==
    /\ IF selectedTransaction # 0
       THEN /\ editTransaction(selectedTransaction)
            /\ detailsDrawerVisible' = FALSE
            /\ formDrawerVisible' = TRUE
       ELSE UNCHANGED <<editingTransaction, detailsDrawerVisible, formDrawerVisible>>
    /\ UNCHANGED <<storeVars, selectedTransaction, selectVars, toast, pageTasks>>

\* A handler up to the await of its request: removeTransaction(id),
\* removeTransactions(idsToDelete) or updateTransaction(id, updateData).
PageMutations == {"update", "remove", "massDelete"}

PageRequest(op, ids) ==
    /\ PageInFlight < MaxTasks
    /\ pageTasks' = PageSuspend([NewPageTask EXCEPT !.op = op, !.pc = "req",
                                              !.net = "sent", !.ids = ids])
    /\ UNCHANGED <<storeVars, sessionVars, selectVars, toast>>

handleMassDelete ==
    IF Len(selectedIds) = 0
    THEN UNCHANGED <<storeVars, sessionVars, selectVars, toast, pageTasks>>
    ELSE PageRequest("massDelete", Range(selectedIds))

handleRemoveTransaction ==
    IF selectedTransaction = 0
    THEN UNCHANGED <<storeVars, sessionVars, selectVars, toast, pageTasks>>
    ELSE PageRequest("remove", {selectedTransaction})

handleSubmitTransaction ==
    IF editingTransaction = 0
    THEN UNCHANGED <<storeVars, sessionVars, selectVars, toast, pageTasks>>
    ELSE PageRequest("update", {editingTransaction})

\* updateTransaction resolved in the store: the edit session is over.
updateTransactionResolved == editingTransaction' = 0

\* What each handler does between its request and refreshTransactions().
AfterRequest(t) ==
    \/ /\ t.op = "remove"
       /\ detailsDrawerVisible' = FALSE
       /\ selectedTransaction' = 0
       /\ UNCHANGED <<editingTransaction, formDrawerVisible, selectVars>>
    \/ /\ t.op = "massDelete"
       /\ exitSelectionMode
       /\ UNCHANGED sessionVars
    \/ /\ t.op = "update"
       /\ updateTransactionResolved
       /\ formDrawerVisible' = FALSE
       /\ UNCHANGED <<detailsDrawerVisible, selectedTransaction, selectVars>>

\* refreshTransactions(): loadTransactions(currentFilters, false, true).  A
\* call that returns at once lets the handler run on to its success toast.
refreshTransactions(t) ==
    IF TxLoadSkips(currentFilters, TRUE)
    THEN /\ pageTasks' = PageResume(t)
         /\ toast' = "success"
         /\ UNCHANGED storeVars
    ELSE /\ txLoading' = TRUE
         /\ pageTasks' = PageStep(t, [t EXCEPT !.pc = "fetch", !.net = "sent",
                                               !.params = currentFilters])
         /\ UNCHANGED <<txServer, transactions, txLoaded, currentFilters, toast>>

\* The request resolved: the handler's own state changes, then the refresh.
PageMutationResolved(t) ==
    /\ t.op \in PageMutations /\ t.pc = "req" /\ t.net = "done"
    /\ AfterRequest(t)
    /\ refreshTransactions(t)
    /\ UNCHANGED pageCalls

\* The refresh resolved: the success toast ends the handler.
PageRefreshResolved(t) ==
    /\ t.op \in PageMutations /\ t.pc = "fetch" /\ t.net = "done"
    /\ TxStore(t)
    /\ pageTasks' = PageResume(t)
    /\ toast' = "success"
    /\ UNCHANGED <<txServer, sessionVars, selectVars, pageCalls>>

\* A catch block that also closes the details drawer and forgets the
\* transaction it showed.
PageRejected_Clears(t) ==
    /\ t.op \in PageMutations /\ t.net = "sent"
    /\ txLoading' = (IF t.pc = "fetch" THEN FALSE ELSE txLoading)
    /\ pageTasks' = PageResume(t)
    /\ toast' = "error"
    /\ detailsDrawerVisible' = FALSE
    /\ selectedTransaction' = 0
    /\ UNCHANGED <<txServer, transactions, txLoaded, currentFilters,
                   editingTransaction, formDrawerVisible, selectVars, pageCalls>>

\* catch (error) { $toast.error(...) }: the request or the refresh failed.
PageRejected(t) ==
    /\ t.op \in PageMutations /\ t.net = "sent"
    /\ txLoading' = (IF t.pc = "fetch" THEN FALSE ELSE txLoading)
    /\ pageTasks' = PageResume(t)
    /\ toast' = "error"
    /\ UNCHANGED <<txServer, transactions, txLoaded, currentFilters, sessionVars,
                   selectVars, pageCalls>>

\* ---------------------------------------------------------- the page system
Shown == transactions.items

PageCall == pageCalls < MaxCalls /\ pageCalls' = pageCalls + 1 /\ UNCHANGED offPage
PageUI   == UNCHANGED <<pageCalls, offPage>>

\* An onBeforeUnmount that leaves the bottom bar as it is.
onBeforeUnmount_Leaves ==
    /\ hideBottomBar' = hideBottomBar
    /\ UNCHANGED <<storeVars, sessionVars, selectionMode, selectedIds, toast,
                   pageTasks>>

\* onBeforeUnmount: the bottom bar is shown again if selection mode hid it.
\* Nothing else of the page is written.
onBeforeUnmount ==
    /\ hideBottomBar' = (IF selectionMode THEN FALSE ELSE hideBottomBar)
    /\ UNCHANGED <<storeVars, sessionVars, selectionMode, selectedIds, toast,
                   pageTasks>>

\* v-model:visible of the two drawers: the user closes the drawer.
closeDetailsDrawer ==
    /\ detailsDrawerVisible' = FALSE
    /\ UNCHANGED <<storeVars, editingTransaction, selectedTransaction,
                   formDrawerVisible, selectVars, toast, pageTasks>>

closeFormDrawer ==
    /\ formDrawerVisible' = FALSE
    /\ UNCHANGED <<storeVars, editingTransaction, selectedTransaction,
                   detailsDrawerVisible, selectVars, toast, pageTasks>>

\* The filters the filter form of the page offers.
PageFilters == {FUndef, FCat1}

\* The user works on the page while it is mounted.
ApplyFilters    == mounted /\ PageCall /\ \E f \in PageFilters : handleApplyFilters(f)
ResetFilters    == mounted /\ PageCall /\ handleResetFilters
PageTick        == PageCall /\ timers # {} /\ refreshTransactionsTick
                            /\ UNCHANGED <<sessionVars, selectVars, toast>>
\* The list is rendered while the store is not loading; the selection bar in
\* selection mode; the details and the form in their open drawers.
Select          == mounted /\ PageUI /\ selectionMode /\ ~txLoading
                           /\ Len(selectedIds) < MaxId
                           /\ \E id \in Shown, b \in BOOLEAN : handleSelect(id, b)
ToggleSelection == mounted /\ PageUI /\ toggleSelectionMode
CancelSelection == mounted /\ PageUI /\ selectionMode /\ exitSelectionMode
                           /\ UNCHANGED <<storeVars, sessionVars, toast, pageTasks>>
Click           == mounted /\ PageUI /\ ~txLoading
                           /\ \E id \in Shown : handleTransactionClick(id)
Edit            == mounted /\ PageUI /\ detailsDrawerVisible /\ handleEditTransaction
MassDelete      == mounted /\ PageCall /\ selectionMode /\ handleMassDelete
Remove          == mounted /\ PageCall /\ detailsDrawerVisible /\ handleRemoveTransaction
Submit          == mounted /\ PageCall /\ formDrawerVisible /\ handleSubmitTransaction
CloseDetails    == mounted /\ PageUI /\ detailsDrawerVisible /\ closeDetailsDrawer
CancelForm      == mounted /\ PageUI /\ formDrawerVisible /\ closeFormDrawer
Unmount         == /\ mounted /\ mounted' = FALSE /\ onBeforeUnmount
                   /\ UNCHANGED <<pageCalls, limitsVars, formVars, tickVars, otherVars>>
TxHandle       == (\E t \in PagePending : TxServerHandle(t)) /\ UNCHANGED offPage
TxLoadOk       == (\E t \in PagePending : TxLoadResolved(t)) /\ UNCHANGED offPage
TxLoadFail     == (\E t \in PagePending : TxLoadRejected(t)) /\ UNCHANGED offPage
PageMutOk      == (\E t \in PagePending : PageMutationResolved(t)) /\ UNCHANGED offPage
PageRefreshOk  == (\E t \in PagePending : PageRefreshResolved(t)) /\ UNCHANGED offPage
PageFail       == (\E t \in PagePending : PageRejected(t)) /\ UNCHANGED offPage

PageNext ==
    \/ ApplyFilters
    \/ ResetFilters
    \/ PageTick
    \/ Select
    \/ ToggleSelection
    \/ CancelSelection
    \/ Click
    \/ Edit
    \/ MassDelete
    \/ Remove
    \/ Submit
    \/ TxHandle
    \/ TxLoadOk
    \/ TxLoadFail
    \/ PageMutOk
    \/ PageRefreshOk
    \/ PageFail
    \/ CloseDetails
    \/ CancelForm
    \/ Unmount
    \/ StartTimer
    \/ StopTimer

PageSpec == Init /\ [][PageNext]_vars

\* Short runs of the page: the same handlers, fewer store calls.
ShortCall == pageCalls < MaxShortCalls

ShortPageNext ==
    \/ ShortCall /\ ApplyFilters
    \/ ShortCall /\ ResetFilters
    \/ ShortCall /\ PageTick
    \/ Select
    \/ ToggleSelection
    \/ CancelSelection
    \/ Click
    \/ Edit
    \/ ShortCall /\ MassDelete
    \/ ShortCall /\ Remove
    \/ ShortCall /\ Submit
    \/ TxHandle
    \/ TxLoadOk
    \/ TxLoadFail
    \/ PageMutOk
    \/ PageRefreshOk
    \/ PageFail
    \/ CloseDetails
    \/ CancelForm
    \/ Unmount
    \/ StartTimer
    \/ StopTimer

ShortPageSpec == Init /\ [][ShortPageNext]_vars

\* ------------------------------------------------------------ edit sessions
\* The limits view: the form is opened for a new limit or for a limit of the
\* list, submitted, or closed.
EditLimit       == /\ \E id \in limits.items : editLimit(id)
                   /\ UNCHANGED <<limitsVars, pageVars, tickVars, otherVars>>
OpenLimitForm   == /\ ~drawerVisible /\ drawerVisible' = TRUE
                   /\ UNCHANGED <<editingLimit, limitsVars, pageVars, tickVars, otherVars>>
CloseLimitForm  == /\ drawerVisible /\ closeForm
                   /\ UNCHANGED <<limitsVars, pageVars, tickVars, otherVars>>
SubmitLimit(max) == drawerVisible /\ Call(max) /\ \E c \in Categories : handleSubmit(c)

\* A run stays on one view: the limits view or the transactions page.
OnLimitsView == pageCalls = 0
OnPage       == calls = 0 /\ ~drawerVisible /\ editingLimit = 0 /\ pageCalls < MaxShortCalls

SessionNext ==
    \/ OnLimitsView /\ UserLoad(MaxShortCalls)
    \/ OnLimitsView /\ UserAdd(MaxShortCalls)
    \/ OnLimitsView /\ UserUpdate(MaxShortCalls)
    \/ OnLimitsView /\ UserRemove(MaxShortCalls)
    \/ OnLimitsView /\ SubmitLimit(MaxShortCalls)
    \/ OnLimitsView /\ EditLimit
    \/ OnLimitsView /\ OpenLimitForm
    \/ OnLimitsView /\ CloseLimitForm
    \/ Handle
    \/ LoadOk
    \/ LoadFail
    \/ MutOk
    \/ ReloadOk
    \/ MutFail
    \/ OnPage /\ ApplyFilters
    \/ OnPage /\ Remove
    \/ OnPage /\ Submit
    \/ calls = 0 /\ Click
    \/ calls = 0 /\ Edit
    \/ calls = 0 /\ CloseDetails
    \/ calls = 0 /\ CancelForm
    \/ TxHandle
    \/ TxLoadOk
    \/ TxLoadFail
    \/ PageMutOk
    \/ PageRefreshOk
    \/ PageFail

SessionSpec == Init /\ [][SessionNext]_vars

\* ------------------------------------------------------ the tick's fan-out
\* The caches every tick refreshes; the chart is refreshed conditionally.
Registered == Stores \ {"categoriesChart"}

\* An array that holds every store's call unconditionally.
Issued_Always(s) == TRUE

\* The array handed to Promise.allSettled holds the store's call, or
\* Promise.resolve() for a chart that was never loaded.
Issued(s) == IF s = "categoriesChart" THEN chartIsLoaded ELSE TRUE

\* p.catch(() => { }): fulfilled once p has settled either way.
Caught(p) == IF p = "rejected" THEN "fulfilled" ELSE p

Elements == [s \in Stores |-> IF branch[s] = "none" THEN "fulfilled"
                                                     ELSE Caught(branch[s])]

\* A join that settles with its first settled element.
allSettled_First(elements) ==
    IF \E s \in Stores : branch[s] # "none" /\ elements[s] # "pending"
    THEN "fulfilled" ELSE "pending"

\* Promise.allSettled: pending until every element has settled, then
\* fulfilled whatever the elements' outcomes.
allSettled(elements) ==
    IF \E s \in Stores : elements[s] = "pending" THEN "pending" ELSE "fulfilled"

\* The interval's callback runs refreshAllStores up to its await: every call
\* of the array is made, in one synchronous step.  One run is followed at a
\* time.
TickStarts ==
    /\ timers # {}
    /\ tickPromise # "pending"
    /\ branch' = [s \in Stores |-> IF Issued(s) THEN "pending" ELSE "none"]
    /\ tickPromise' = "pending"
    /\ UNCHANGED <<chartIsLoaded, limitsVars, formVars, pageVars, otherVars>>

\* A store's call settles: its refresh succeeded or failed.
BranchSettles ==
    /\ \E s \in Stores, r \in {"fulfilled", "rejected"} :
          /\ branch[s] = "pending"
          /\ branch' = [branch EXCEPT ![s] = r]
    /\ UNCHANGED <<tickPromise, chartIsLoaded, limitsVars, formVars, pageVars, otherVars>>

\* The await of the join returns, or throws into catch (error) {
\* console.error(...) }: refreshAllStores returns either way.
TickReturns ==
    /\ tickPromise = "pending"
    /\ allSettled(Elements) # "pending"
    /\ tickPromise' = "fulfilled"
    /\ UNCHANGED <<branch, chartIsLoaded, limitsVars, formVars, pageVars, otherVars>>

\* The chart is loaded by its own view, or reset.
ChartFlag ==
    /\ chartIsLoaded' = ~chartIsLoaded
    /\ UNCHANGED <<branch, tickPromise, limitsVars, formVars, pageVars, otherVars>>

\* onMounted(() => startAutoRefresh()) and onBeforeUnmount(() =>
\* stopAutoRefresh()) of the component that uses the composable.
ViewMounts ==
    /\ lifecycle = "setup" /\ lifecycle' = "mounted"
    /\ startAutoRefresh
    /\ UNCHANGED <<calls, formVars, pageVars, tickVars, periodData, updateData>>

ViewUnmounts ==
    /\ lifecycle = "mounted" /\ lifecycle' = "unmounted"
    /\ stopAutoRefresh
    /\ UNCHANGED <<calls, formVars, pageVars, tickVars, periodData, updateData>>

TickNext ==
    \/ ViewMounts
    \/ ViewUnmounts
    \/ StartTimer
    \/ StopTimer
    \/ ChartFlag
    \/ TickStarts
    \/ BranchSettles
    \/ TickReturns

TickSpec == Init /\ [][TickNext]_vars

\* ------------------------------------------------------------- the period
\* Calendar dates as the Date object computes them.  Months are numbered
\* from 0, as getMonth() and the Date constructor number them.
Years    == {2024, 2025}
\* Days are counted from the year before the first of these.
BaseYear == (CHOOSE y \in Years : \A z \in Years : y <= z) - 1
Offsets  == {-8, -3, 0, 1, 5, 9}   \* hours the client's clock is ahead of UTC

IsLeap(y) == (y % 4 = 0 /\ y % 100 # 0) \/ y % 400 = 0

MonthLen(y, m) ==
    IF m = 1 THEN (IF IsLeap(y) THEN 29 ELSE 28)
    ELSE IF m \in {3, 5, 8, 10} THEN 30 ELSE 31

RECURSIVE DaysBeforeYear(_)
DaysBeforeYear(y) ==
    IF y <= BaseYear THEN 0
    ELSE DaysBeforeYear(y - 1) + (IF IsLeap(y - 1) THEN 366 ELSE 365)

RECURSIVE DaysBeforeMonth(_, _)
DaysBeforeMonth(y, m) ==
    IF m = 0 THEN 0 ELSE DaysBeforeMonth(y, m - 1) + MonthLen(y, m - 1)

\* The day, counted from the first of January of BaseYear, that the
\* constructor's arguments name; a month of 12 is January of the next year
\* and a day of 0 the day before the first.
DayNumber(y, m, d) ==
    LET yy == IF m > 11 THEN y + 1 ELSE y
        mm == IF m > 11 THEN m - 12 ELSE m
    IN  DaysBeforeYear(yy) + DaysBeforeMonth(yy, mm) + d - 1

\* The date that lies n days after the first of month m of year y.
RECURSIVE DateAfter(_, _, _)
DateAfter(y, m, n) ==
    IF n < MonthLen(y, m) THEN [y |-> y, m |-> m, d |-> n + 1]
    ELSE IF m = 11 THEN DateAfter(y + 1, 0, n - MonthLen(y, m))
    ELSE DateAfter(y, m + 1, n - MonthLen(y, m))

FromDayNumber(n) == DateAfter(BaseYear, 0, n)

\* new Date(y, m, d): midnight of that day on the client's clock, as hours
\* of UTC since the start of BaseYear.
LocalMidnight(y, m, d, offset) == DayNumber(y, m, d) * 24 - offset

\* toISOString().split('T')[0]: the UTC date of the instant, months from 1.
ISODate(instant) ==
    LET dt == FromDayNumber(instant \div 24)
    IN  [y |-> dt.y, m |-> dt.m + 1, d |-> dt.d]

\* The period of convertFormDataToCreateData and convertFormDataToUpdateData,
\* at a clock showing the given year and month at the given offset.
PeriodOf(year, month, offset) ==
    LET periodStart == LocalMidnight(year, month, 1, offset)
        periodEnd   == LocalMidnight(year, month + 1, 0, offset)
    IN  [period_start |-> ISODate(periodStart), period_end |-> ISODate(periodEnd)]

convertLimitFormData(op, year, month, offset) ==
    LET period == PeriodOf(year, month, offset)
    IN  periodData' = [op |-> op, year |-> year, month |-> month, offset |-> offset,
                       period_start |-> period.period_start,
                       period_end   |-> period.period_end]

\* One conversion is followed in a run.
NothingBuilt == periodData = NoPeriodData /\ updateData = NoUpdateData

\* A limit is created or a limit edit is submitted at some moment of some
\* client's clock.
ConvertLimit ==
    /\ NothingBuilt
    /\ \E op \in {"create", "update"}, year \in Years, month \in 0..11,
          offset \in Offsets : convertLimitFormData(op, year, month, offset)
    /\ UNCHANGED <<limitsVars, formVars, pageVars, tickVars, lifecycle, updateData>>

\* ------------------------------------------------------ the update payload
\* Strings are sequences of characters; a form value is a string or undefined.
Str(chars) == [defined |-> TRUE, chars |-> chars]

CategoryInputs ==
    {Undefined, Str(<<>>), Str(<<" ">>), Str(<<" ", " ">>), Str(<<"c", "1">>),
     Str(<<" ", "c", "2">>), Str(<<"c", "2", " ">>)}

Amounts == 0..MaxAmount

RECURSIVE TrimStart(_)
TrimStart(cs) == IF cs # <<>> /\ Head(cs) = " " THEN TrimStart(Tail(cs)) ELSE cs

RECURSIVE TrimEnd(_)
TrimEnd(cs) ==
    IF cs # <<>> /\ cs[Len(cs)] = " " THEN TrimEnd(SubSeq(cs, 1, Len(cs) - 1)) ELSE cs

\* String.prototype.trim.
Trim(cs) == TrimEnd(TrimStart(cs))

\* A value used as a condition: undefined and the empty string are falsy.
Truthy(v) == v.defined /\ v.chars # <<>>

DigitChars == <<"0", "1", "2", "3", "4", "5", "6", "7", "8", "9">>

\* Number.prototype.toString of a non-negative integer.
RECURSIVE toString(_)
toString(n) ==
    IF n < 10 THEN <<DigitChars[n + 1]>>
    ELSE toString(n \div 10) \o <<DigitChars[(n % 10) + 1]>>

BaseKeys == {"type", "amount", "currency", "description", "transaction_date"}

\* A conversion that sends every category value that is not falsy.
convertFormDataToUpdateData_NoTrim(category, amount) ==
    updateData' =
        [built |-> TRUE, category |-> category, amount |-> amount,
         keys |-> IF Truthy(category)
                  THEN BaseKeys \cup {"category_id"} ELSE BaseKeys,
         category_id |-> IF Truthy(category)
                         THEN category ELSE Undefined,
         amountSent |-> toString(amount)]

convertFormDataToUpdateData(category, amount) ==
    updateData' =
        [built |-> TRUE, category |-> category, amount |-> amount,
         keys |-> IF Truthy(category) /\ Trim(category.chars) # <<>>
                  THEN BaseKeys \cup {"category_id"} ELSE BaseKeys,
         category_id |-> IF Truthy(category) /\ Trim(category.chars) # <<>>
                         THEN category ELSE Undefined,
         amountSent |-> toString(amount)]

\* The form is submitted with some category value and some amount.
ConvertTransaction ==
    /\ NothingBuilt
    /\ \E category \in CategoryInputs, amount \in Amounts :
          convertFormDataToUpdateData(category, amount)
    /\ UNCHANGED <<limitsVars, formVars, pageVars, tickVars, lifecycle, periodData>>

ConvertNext ==
    \/ ConvertLimit
    \/ ConvertTransaction

ConvertSpec == Init /\ [][ConvertNext]_vars

\* ------------------------------------------------------------------ claims
\* The call that finished last was a loadLimits that went to the network,
\* and the filter it recorded is f: "load(f) has resolved".
LoadHasResolved(f, results) ==
    /\ outcome.op = "load"
    /\ outcome.res \in results
    /\ currentFilter = f

\* C1 as stated: once load(f) has resolved, whether its fetch succeeded or
\* failed, load(f) again without force issues no fetch (one fetch in total)
\* and leaves contents, loaded flag and recorded filter unchanged.
C1_HitAfterAnyResolution ==
    [][\A f \in Filters :
         (LoadHasResolved(f, {"ok", "logged"}) /\ loadLimits(f, FALSE, "user"))
            => UNCHANGED <<tasks, limits, isLoaded, currentFilter>>]_vars

\* C1 amended: once load(f) has resolved with a successful fetch, load(f)
\* again without force issues no fetch (one fetch in total) and leaves
\* contents, loaded flag and recorded filter unchanged.
C1_HitAfterSuccess ==
    [][\A f \in Filters :
         (LoadHasResolved(f, {"ok"}) /\ loadLimits(f, FALSE, "user"))
            => UNCHANGED <<tasks, limits, isLoaded, currentFilter>>]_vars

\* Two calls were made, the first fetched and stored its result, the second
\* returned without a fetch.
C1_Witness ==
    /\ calls = 2 /\ Idle /\ isLoaded
    /\ outcome = Outcome("load", "user", "noop")
    /\ limits = LIST(server, currentFilter)

\* C2: after load(f1) has resolved, load(f2) without force with f2
\* structurally different from f1 issues a second fetch, for f2, and records
\* f2; when that fetch answers, the contents are exactly its answer, an
\* answer to the query f2 that holds nothing f2 does not match.
C2_Invalidation ==
    [][/\ \A f1, f2 \in Filters :
            (/\ LoadHasResolved(f1, {"ok", "logged"})
             /\ ~StructEq(f1, f2)
             /\ loadLimits(f2, FALSE, "user"))
               => /\ tasks' = Suspend(LoadTask(f2, "user"))
                  /\ currentFilter' = f2
       /\ \A t \in Pending :
            LoadResolved(t)
               => /\ limits' = t.resp
                  /\ limits'.q = Fields(currentFilter')
                  /\ \A id \in limits'.items : Matches(id, currentFilter')
                  /\ isLoaded']_vars

\* Two loads were made, the second with the filter category c1 after a
\* first that had recorded no filter; the contents are the answer for c1.
C2_Witness ==
    /\ calls = 2 /\ Idle /\ server.ver = 0
    /\ outcome = Outcome("load", "user", "ok")
    /\ currentFilter = FCat1
    /\ limits = LIST(server, FCat1)

\* C3: while a load of the cache has not resolved, no second load fetch is
\* issued, so at most one load fetch is outstanding at any time.
C3_OneLoadFetch == LoadFetches <= 1

\* C4: neither the call of loadLimits nor the failure of its fetch changes
\* the contents or the loaded flag.
C4_StaleButAvailable ==
    [][((\E f \in Filters, force \in BOOLEAN, o \in {"user", "tick"} :
            loadLimits(f, force, o)) \/ LoadFail)
          => UNCHANGED <<limits, isLoaded>>]_vars

\* A load of a loaded cache failed: the contents fetched before are kept.
C4_Witness ==
    /\ outcome.op = "load" /\ outcome.res = "logged"
    /\ isLoaded /\ limits.items # {} /\ ~loading

\* C5: whenever the cache is loaded and no load is in progress, the
\* contents are an answer to the query of the recorded filter.
C5_FilterProducedContents ==
    (isLoaded /\ ~loading /\ LoadFetches = 0) => limits.q = Fields(currentFilter)

\* C6: a failed fetch of a load the user started reaches the caller as a
\* thrown error; a failed fetch of a load a timer tick started is logged only.
C6_UserLoadFailureThrown ==
    [][\A t \in Pending :
         LoadRejected(t)
            => outcome'.res = (IF t.origin = "user" THEN "thrown" ELSE "logged")]_vars

\* C7: a step that ends a store call, on success or on failure, leaves the
\* busy flag cleared, and when every outstanding remote call eventually
\* resolves a raised busy flag is eventually cleared.
C7_BusyReleased ==
    /\ [][BagCardinality(tasks') < BagCardinality(tasks) => ~loading']_vars
    /\ (loading ~> ~loading)

\* A mutation raised the flag, its request failed, and the flag is down.
C7_Witness ==
    /\ outcome.op \in Mutations /\ outcome.res = "thrown"
    /\ Idle /\ ~loading

\* The contents c hold what the mutation of task t did: they were read at or
\* after the server version the mutation produced, and hold no deleted id.
Reflects(c, t, deleted) == c.ver >= t.mver /\ c.items \cap deleted = {}

\* C8: a successful addLimit, updateLimit or removeLimit ends with contents
\* that reflect it; a page handler whose delete, bulk delete or update
\* request has resolved issues a fetch of the transactions, and ends with
\* contents that reflect the mutation.
C8_MutationThenRefresh ==
    [][/\ \A t \in Pending :
            ReloadResolved(t)
               => Reflects(limits', t, IF t.op = "remove" THEN {t.id} ELSE {})
       /\ \A t \in PagePending :
            PageMutationResolved(t)
               => \E u \in BagToSet(pageTasks') :
                     u.op = t.op /\ u.pc = "fetch" /\ u.net = "sent"
       /\ \A t \in PagePending :
            PageRefreshResolved(t)
               => Reflects(transactions', t, IF t.op = "update" THEN {} ELSE t.ids)]_vars

\* C9: the answer of a load never replaces contents that were fetched after
\* a mutation the answer does not yet reflect.
C9_NoStaleOverwrite ==
    [][\A t \in Pending : LoadResolved(t) => t.resp.ver >= limits.ver]_vars

\* C10: if the timer stays started, then from some point on the cache holds
\* the server's answer for its recorded filter: the user's calls come to an
\* end, the server stops changing, and a later tick repairs what a failed or
\* overtaken refresh left behind.
Consistent == limits = LIST(server, currentFilter)

C10_EventuallyConsistent ==
    (<>[](refreshInterval # 0)) => <>[]Consistent

\* After a mutation changed the server, a tick's refresh has brought the
\* cache level with it.
C10_Witness ==
    /\ outcome = Outcome("load", "tick", "ok")
    /\ server.ver > 0 /\ Idle /\ Consistent

\* C11: while selection mode is active, every selected identifier is the
\* identifier of a transaction in the loaded, filtered collection.
C11_SelectionSubset ==
    selectionMode => Range(selectedIds) \subseteq transactions.items

\* A page task is a bulk delete whose handler is at its request.
IsBulkRequest(t) == t.op = "massDelete" /\ t.pc = "req"

\* A fetch of the transactions is on its way for the handler of task t.
RefreshIssued(t) ==
    \E u \in BagToSet(pageTasks') : u.op = t.op /\ u.pc = "fetch" /\ u.net = "sent"

\* C12: when the request of a bulk delete has resolved or failed, the
\* handler issues a fetch of the transactions.
C12_BulkDeleteAlwaysRefreshes ==
    [][\A t \in PagePending :
         (IsBulkRequest(t) /\ (PageMutationResolved(t) \/ PageRejected(t)))
            => RefreshIssued(t)]_vars

\* C13: when the handler of a bulk delete ends, after a request that
\* succeeded or one that failed, selection mode is inactive and the
\* selection set is empty.
C13_BulkDeleteLeavesSelection ==
    [][\A t \in PagePending :
         (/\ t.op = "massDelete"
          /\ PageMutationResolved(t) \/ PageRefreshResolved(t) \/ PageRejected(t)
          /\ pageTasks' = PageResume(t))
            => (~selectionMode' /\ selectedIds' = <<>>)]_vars

\* C14: every step that takes the page out of selection mode, the unmount
\* of the page in selection mode included, leaves the selection set empty.
C14_ExitClearsSelection ==
    [][(selectionMode /\ (~selectionMode' \/ (mounted /\ ~mounted')))
          => selectedIds' = <<>>]_vars

\* C15: a step that applies or resets the filters to a filter other than
\* the recorded one, and a step that records another filter, leave the
\* selection set empty.
C15_FilterChangeClearsSelection ==
    [][(\/ \E f \in PageFilters :
             ~StructEq(f, currentFilters) /\ handleApplyFilters(f)
        \/ ~StructEq(FUndef, currentFilters) /\ handleResetFilters
        \/ ~StructEq(currentFilters', currentFilters))
          => selectedIds' = <<>>]_vars

\* C16: no identifier occurs more than once in the selection collection,
\* so its length is the number of distinct selected transactions.
C16_NoDuplicates == Len(selectedIds) = Cardinality(Range(selectedIds))

\* C17: entering editing for X makes X the edit-session reference whatever
\* the reference was before: editLimit(X) leaves editingLimit = X, and the
\* page's edit action leaves editingTransaction = the selected transaction.
C17_EditReplacesSession ==
    [][/\ \A id \in Ids : editLimit(id) => editingLimit' = id
       /\ (selectedTransaction # 0 /\ handleEditTransaction)
             => editingTransaction' = selectedTransaction]_vars

\* The limit being edited is not the one whose submit is still awaiting the
\* server: the session of the earlier limit was replaced.
C17_Witness ==
    \E t \in Pending :
        t.origin = "submitEdit" /\ editingLimit # 0 /\ editingLimit # t.id

\* C18: when the update request of a submit has resolved the form is
\* closed, the edit reference is null and a fetch of the collection is
\* issued; closing the form without submitting leaves the edit reference
\* null and the form closed and issues no fetch.
C18_EditSessionTransitions ==
    [][/\ \A t \in Pending :
            (t.origin = "submitEdit" /\ ReloadResolved(t))
               => (editingLimit' = 0 /\ ~drawerVisible')
       /\ CloseLimitForm => (editingLimit' = 0 /\ ~drawerVisible' /\ tasks' = tasks)
       /\ \A t \in PagePending :
            (t.op = "update" /\ PageMutationResolved(t))
               => (editingTransaction' = 0 /\ ~formDrawerVisible' /\ RefreshIssued(t))
       /\ CancelForm
             => (editingTransaction' = 0 /\ ~formDrawerVisible'
                 /\ pageTasks' = pageTasks)]_vars

\* C19: the step in which the request of a user action fails surfaces the
\* failure (thrown error, error toast), changes neither the cache contents
\* nor the drawers, the form or the selected and editing references, and
\* issues no further request.
C19_FailureLeavesState ==
    [][/\ \A t \in Pending :
            (t.pc = "req" /\ MutationRejected(t))
               => /\ outcome'.res = "thrown"
                  /\ tasks' = Resume(t)
                  /\ UNCHANGED <<limits, isLoaded, currentFilter, formVars>>
       /\ \A t \in PagePending :
            (t.pc = "req" /\ t.op \in {"remove", "update"} /\ PageRejected(t))
               => /\ toast' = "error"
                  /\ pageTasks' = PageResume(t)
                  /\ UNCHANGED <<transactions, txLoaded, currentFilters,
                                 sessionVars, selectVars>>]_vars

\* The delete of the transaction shown in the details drawer failed: the
\* error toast is up, the drawer still shows the transaction, nothing was
\* deleted and nothing is in flight.
C19_Witness ==
    /\ toast = "error" /\ txServer.ver = 0 /\ PageInFlight = 0
    /\ detailsDrawerVisible /\ selectedTransaction \in transactions.items

\* C20: the step that starts a tick issues the refresh of every registered
\* cache; a refresh that fails leaves every other refresh as it was, so the
\* others go on to settle; the tick's own promise is never rejected, and it
\* is fulfilled only when every refresh it issued has settled.
C20_BestEffortFanOut ==
    [][/\ (tickPromise # "pending" /\ tickPromise' = "pending")
             => \A s \in Registered : branch'[s] = "pending"
       /\ \A s \in Stores :
             (branch[s] = "pending" /\ branch'[s] = "rejected")
                => \A o \in Stores \ {s} : branch'[o] = branch[o]
       /\ tickPromise' # "rejected"
       /\ tickPromise' = "fulfilled"
             => \A s \in Stores : branch'[s] # "pending"]_vars

\* A tick has returned although refreshes failed: some of its refreshes were
\* rejected, others fulfilled, and its own promise is fulfilled.
C20_Witness ==
    /\ tickPromise = "fulfilled"
    /\ \E s \in Registered : branch[s] = "rejected"
    /\ \E s \in Registered : branch[s] = "fulfilled"

\* C21: at most one interval is set and not cleared, and it is the one the
\* composable holds; the step of stopAutoRefresh or of the unmount leaves no
\* interval to fire a tick, and an interval appears again only by
\* startAutoRefresh (called directly or on mount).
C21_OneTimer ==
    /\ [](Cardinality(timers) <= 1 /\ timers \subseteq {refreshInterval})
    /\ [][(StopTimer \/ ViewUnmounts) => timers' = {}]_vars
    /\ [][(timers = {} /\ timers' # {}) => (StartTimer \/ ViewMounts)]_vars

\* The view was unmounted while a tick of its timer was still running: the
\* timer is gone, the tick is still pending.
C21_Witness ==
    lifecycle = "unmounted" /\ timers = {} /\ tickPromise = "pending"

\* C22: the step that starts a tick issues the chart's refresh exactly when
\* the chart's loaded flag is true in that step, and the chart's refresh is
\* never issued while the flag is false.
C22_ChartConditional ==
    [][/\ (tickPromise # "pending" /\ tickPromise' = "pending")
             => (branch'["categoriesChart"] = "pending" <=> chartIsLoaded)
       /\ (branch["categoriesChart"] # "pending"
            /\ branch'["categoriesChart"] = "pending") => chartIsLoaded]_vars

\* A tick is running that issued the registered refreshes and left out the
\* chart, which was not loaded.
C22_Witness ==
    /\ tickPromise = "pending" /\ ~chartIsLoaded
    /\ branch["categoriesChart"] = "none"
    /\ \A s \in Registered : branch[s] # "none"

\* C23 as stated: every refreshLimits call issues a fetch with the filter
\* recorded in the cache.
C23_RefreshAlwaysFetches ==
    [][refreshLimits("tick")
         => tasks' = Suspend(LoadTask(currentFilter, "tick"))]_vars

\* C23, amended: a refreshLimits call made while the busy flag is down issues
\* a fetch with the filter recorded in the cache and leaves that filter
\* recorded, whether or not the cache is already loaded with it.
C23_RefreshFetchesUnlessBusy ==
    [][(~loading /\ refreshLimits("tick"))
         => /\ tasks' = Suspend(LoadTask(currentFilter, "tick"))
            /\ currentFilter' = currentFilter]_vars

\* The cache is loaded with a filter and a refresh has sent a fetch with that
\* same filter.
C23_Witness ==
    /\ isLoaded /\ currentFilter = FCat1
    /\ \E t \in Pending : t.op = "load" /\ t.origin = "tick" /\ t.params = FCat1

\* C24: on a loaded cache a non-forced load with a filter that has the same
\* fields and values as the recorded one, in whatever key order, is a cache
\* hit: it sends no fetch.
C24_KeyOrderIndependent ==
    [][\A g \in Filters :
          (isLoaded /\ StructEq(g, currentFilter) /\ loadLimits(g, FALSE, "user"))
             => tasks' = tasks]_vars

\* C25: the payload of a limit create or edit has period_start on the first
\* and period_end on the last day of the month the client's clock shows,
\* for every offset of that clock from UTC, and period_start <= period_end.
C25_CurrentMonthPeriod ==
    periodData.op # "none" =>
        /\ periodData.period_start =
              [y |-> periodData.year, m |-> periodData.month + 1, d |-> 1]
        /\ periodData.period_end =
              [y |-> periodData.year, m |-> periodData.month + 1,
               d |-> MonthLen(periodData.year, periodData.month)]
        /\ \/ periodData.period_start.y < periodData.period_end.y
           \/ /\ periodData.period_start.y = periodData.period_end.y
              /\ \/ periodData.period_start.m < periodData.period_end.m
                 \/ /\ periodData.period_start.m = periodData.period_end.m
                    /\ periodData.period_start.d <= periodData.period_end.d

\* A string with a character that is not a space.
NonBlank(v) == v.defined /\ \E i \in 1..Len(v.chars) : v.chars[i] # " "

\* The number a string of decimal digits denotes.
RECURSIVE ParseDecimal(_)
ParseDecimal(cs) ==
    IF cs = <<>> THEN 0
    ELSE 10 * ParseDecimal(SubSeq(cs, 1, Len(cs) - 1))
         + (CHOOSE k \in 0..9 : DigitChars[k + 1] = cs[Len(cs)])

\* C26: the update payload has a category_id key exactly when the form's
\* category value has a character that is not a space, the value sent is then
\* the form's value, and the amount is sent as the string of decimal digits
\* that denotes it.
C26_UpdatePayload ==
    updateData.built =>
        /\ "category_id" \in updateData.keys <=> NonBlank(updateData.category)
        /\ "category_id" \in updateData.keys
              => updateData.category_id = updateData.category
        /\ updateData.amountSent # <<>>
        /\ \A i \in 1..Len(updateData.amountSent) :
              \E k \in 1..10 : updateData.amountSent[i] = DigitChars[k]
        /\ ParseDecimal(updateData.amountSent) = updateData.amount

\* A payload built from a whitespace-only category and a two-digit amount:
\* no category_id key, the amount as two digits.
C26_Witness ==
    /\ updateData.built
    /\ updateData.category = Str(<<" ", " ">>)
    /\ "category_id" \notin updateData.keys
    /\ Len(updateData.amountSent) = 2

\* C27: the busy flag of the limits cache is up in every state in which a
\* fetch or a mutation request of that cache is still awaiting its answer.
C27_BusyWhileInFlight == InFlight > 0 => loading

\* C28: when the submit of an edit session for limit Y completes while the
\* edit reference names another limit X, the reference still names X and the
\* form is still open afterwards.
C28_LaterSessionSurvives ==
    [][\A t \in Pending :
          (/\ t.origin = "submitEdit"
           /\ editingLimit # 0 /\ editingLimit # t.id /\ drawerVisible
           /\ ReloadResolved(t))
             => (editingLimit' = editingLimit /\ drawerVisible')]_vars

====
